---------------------------- MODULE Spec2Model ----------------------------
(***************************************************************************)
(* Model of auto-adjust-display-brightness (src/aadb/__init__.py).         *)
(*                                                                         *)
(* The brightness controllers compute with Python numbers: the raw values  *)
(* of the backlight backend are ints, every percentage and every software  *)
(* raw value is a float (IEEE-754 binary64).  The conversions are modelled *)
(* with binary64 arithmetic (53 bit significand, round to nearest, ties to *)
(* even), because int() and round() act on the rounded results.            *)
(***************************************************************************)
EXTENDS Integers, Sequences, FiniteSets, TLC

(***************************************************************************)
(* Natural numbers of any size: little-endian sequences of 15 bit limbs    *)
(* without leading zero limbs (<<>> is zero).  They carry the significands *)
(* and the exact intermediate results of the float operations.             *)
(***************************************************************************)
LimbBits == 15

Base == 2^LimbBits

Limb(a, i) == IF i <= Len(a) THEN a[i] ELSE 0

RECURSIVE BStrip(_)
BStrip(a) ==
    IF a = <<>> THEN a
    ELSE IF a[Len(a)] = 0 THEN BStrip(SubSeq(a, 1, Len(a) - 1))
    ELSE a

RECURSIVE BFromInt(_)
BFromInt(n) == IF n = 0 THEN <<>> ELSE <<n % Base>> \o BFromInt(n \div Base)

RECURSIVE BToInt(_)
BToInt(a) == IF a = <<>> THEN 0 ELSE a[1] + Base * BToInt(Tail(a))

RECURSIVE BAddFrom(_, _, _, _)
BAddFrom(a, b, i, carry) ==
    IF i > Len(a) /\ i > Len(b)
    THEN (IF carry = 0 THEN <<>> ELSE <<carry>>)
    ELSE LET s == Limb(a, i) + Limb(b, i) + carry
         IN  <<s % Base>> \o BAddFrom(a, b, i + 1, s \div Base)

BAdd(a, b) == BAddFrom(a, b, 1, 0)

RECURSIVE BSubFrom(_, _, _, _)
BSubFrom(a, b, i, borrow) ==
    IF i > Len(a) THEN <<>>
    ELSE LET d == a[i] - Limb(b, i) - borrow
         IN  IF d < 0 THEN <<d + Base>> \o BSubFrom(a, b, i + 1, 1)
             ELSE <<d>> \o BSubFrom(a, b, i + 1, 0)

\* a - b for a >= b
BSub(a, b) == BStrip(BSubFrom(a, b, 1, 0))

\* -1, 0 or 1 as a < b, a = b or a > b
BCmp(a, b) ==
    IF Len(a) # Len(b) THEN (IF Len(a) < Len(b) THEN -1 ELSE 1)
    ELSE LET D == {i \in 1..Len(a) : a[i] # b[i]}
         IN  IF D = {} THEN 0
             ELSE LET k == CHOOSE i \in D : \A j \in D : j <= i
                  IN  IF a[k] < b[k] THEN -1 ELSE 1

RECURSIVE BMulSmallFrom(_, _, _, _)
BMulSmallFrom(a, k, i, carry) ==
    IF i > Len(a)
    THEN (IF carry = 0 THEN <<>> ELSE <<carry>>)
    ELSE LET p == a[i] * k + carry
         IN  <<p % Base>> \o BMulSmallFrom(a, k, i + 1, p \div Base)

\* a * k for 0 <= k < Base
BMulSmall(a, k) == IF k = 0 THEN <<>> ELSE BMulSmallFrom(a, k, 1, 0)

Zeros(n) == [i \in 1..n |-> 0]

RECURSIVE BMulFrom(_, _, _)
BMulFrom(a, b, j) ==
    IF j > Len(b) THEN <<>>
    ELSE BAdd(IF b[j] = 0 THEN <<>> ELSE Zeros(j - 1) \o BMulSmall(a, b[j]),
              BMulFrom(a, b, j + 1))

BMul(a, b) == BMulFrom(a, b, 1)

\* a * 2^n
BShl(a, n) ==
    IF a = <<>> THEN <<>>
    ELSE Zeros(n \div LimbBits) \o BMulSmall(a, 2^(n % LimbBits))

\* a \div 2^n
BShr(a, n) ==
    LET drop == n \div LimbBits
        bits == n % LimbBits
        x    == IF drop >= Len(a) THEN <<>> ELSE SubSeq(a, drop + 1, Len(a))
    IN  BStrip([i \in 1..Len(x) |->
                  (x[i] \div 2^bits) + (Limb(x, i + 1) % 2^bits) * 2^(LimbBits - bits)])

\* bit n of a (bit 0 is the lowest)
BBit(a, n) == (Limb(a, n \div LimbBits + 1) \div 2^(n % LimbBits)) % 2

\* the lowest n bits of a are all zero
BLowZero(a, n) == BShl(BShr(a, n), n) = a

BBitLen(a) ==
    IF a = <<>> THEN 0
    ELSE LimbBits * (Len(a) - 1)
         + (CHOOSE k \in 1..LimbBits : 2^(k - 1) <= a[Len(a)] /\ a[Len(a)] < 2^k)

(***************************************************************************)
(* Python floats: sgn * man * 2^exp with sgn in {1, -1} and man a 53 bit   *)
(* significand (2^52 <= man < 2^53), or zero (man = <<>>).  The values the *)
(* program computes are far from the overflow and subnormal ranges.        *)
(***************************************************************************)
Precision == 53

FZero == [sgn |-> 1, man |-> <<>>, exp |-> 0]

\* the float sgn * q * 2^E for a q of Precision or Precision + 1 bits (the
\* latter after a carry out of the rounding: q is then 2^Precision)
FNorm(s, q, E) ==
    IF BBitLen(q) > Precision
    THEN [sgn |-> s, man |-> BShr(q, 1), exp |-> E + 1]
    ELSE [sgn |-> s, man |-> q, exp |-> E]

\* q, or q + 1 when the dropped bits are more than half a unit, or exactly
\* half a unit and q is odd
FRoundUp(s, q, E, half, tie) ==
    FNorm(s, IF half /\ (~tie \/ BBit(q, 0) = 1) THEN BAdd(q, <<1>>) ELSE q, E)

\* N of L bits, L > Precision: the lowest sh = L - Precision bits are dropped
FRoundShift(s, N, E, sh) ==
    FRoundUp(s, BShr(N, sh), E + sh, BBit(N, sh - 1) = 1, BLowZero(N, sh - 1))

FRoundLen(s, N, E, L) ==
    IF L = 0 THEN FZero
    ELSE IF L <= Precision
    THEN [sgn |-> s, man |-> BShl(N, Precision - L), exp |-> E - (Precision - L)]
    ELSE FRoundShift(s, N, E, L - Precision)

\* the float nearest to sgn * N * 2^E, ties to the even significand
FRound(s, N, E) == FRoundLen(s, N, E, BBitLen(N))

\* int -> float (exact for the ints of the program)
FFromInt(n) == FRound(IF n < 0 THEN -1 ELSE 1, BFromInt(IF n < 0 THEN -n ELSE n), 0)

FNeg(a) == IF a.man = <<>> THEN a ELSE [a EXCEPT !.sgn = -a.sgn]

\* sa * Na + sb * Nb for sa # sb, c the comparison of Na with Nb
FAddCmp(sa, Na, sb, Nb, e, c) ==
    IF c = 0 THEN FZero
    ELSE FRound(IF c > 0 THEN sa ELSE sb,
                IF c > 0 THEN BSub(Na, Nb) ELSE BSub(Nb, Na), e)

\* (sa * Na + sb * Nb) * 2^e
FAddAt(sa, Na, sb, Nb, e) ==
    IF sa = sb THEN FRound(sa, BAdd(Na, Nb), e)
    ELSE FAddCmp(sa, Na, sb, Nb, e, BCmp(Na, Nb))

\* a + b: the exact sum at the smaller exponent, rounded once
FAdd(a, b) ==
    IF a.man = <<>> THEN b
    ELSE IF b.man = <<>> THEN a
    ELSE LET e == IF a.exp < b.exp THEN a.exp ELSE b.exp
         IN  FAddAt(a.sgn, BShl(a.man, a.exp - e), b.sgn, BShl(b.man, b.exp - e), e)

\* a - b
FSub(a, b) == FAdd(a, FNeg(b))

\* a * b
FMul(a, b) ==
    IF a.man = <<>> \/ b.man = <<>> THEN FZero
    ELSE FRound(a.sgn * b.sgn, BMul(a.man, b.man), a.exp + b.exp)

\* the digit q with D * q <= RB < D * (q + 1), at most 4 below and 1 above est
BDivNear(RB, D, est) ==
    CHOOSE q \in (IF est < 4 THEN 0 ELSE est - 4) ..
                 (IF est + 1 > Base - 1 THEN Base - 1 ELSE est + 1) :
        /\ BCmp(BMulSmall(D, q), RB) <= 0
        /\ BCmp(RB, BAdd(BMulSmall(D, q), D)) < 0

\* the estimate: RB and D cut to the leading LimbBits bits of D
BDivPick(RB, D, sh) == BDivNear(RB, D, BToInt(BShr(RB, sh)) \div BToInt(BShr(D, sh)))

\* (R * Base) \div D for R < D and D of at least LimbBits bits
BDivDigit(R, D) == BDivPick(BShl(R, LimbBits), D, BBitLen(D) - LimbBits)

BDivPut(q, rest) == <<rest[1] \o <<q>>, rest[2]>>

\* <<Q, R'>>: Q = (R * Base^n) \div D and R' the remainder (R < D)
RECURSIVE BDivLimbs(_, _, _)
BDivNext(R, D, n, q) ==
    BDivPut(q, BDivLimbs(BSub(BShl(R, LimbBits), BMulSmall(D, q)), D, n - 1))

BDivLimbs(R, D, n) ==
    IF n = 0 THEN <<<<>>, R>> ELSE BDivNext(R, D, n, BDivDigit(R, D))

\* limbs of quotient computed below the leading bit: 60 bits, more than the
\* Precision + 2 that one correct rounding needs
QuotLimbs == 4

\* the quotient Q of the significands and a sticky bit for the remainder,
\* rounded once
FDivSticky(a, b, Q, sticky) ==
    FRound(a.sgn * b.sgn, BAdd(BAdd(Q, Q), sticky),
           a.exp - b.exp - QuotLimbs * LimbBits - 1)

FDivQuot(a, b, lead, qr) ==
    FDivSticky(a, b, BStrip(qr[1] \o <<lead>>), IF qr[2] = <<>> THEN <<>> ELSE <<1>>)

\* ge: the significand of a is at least that of b, the quotient has a
\* leading 1 above the QuotLimbs limbs
FDivGe(a, b, ge) ==
    FDivQuot(a, b, IF ge THEN 1 ELSE 0,
             BDivLimbs(IF ge THEN BSub(a.man, b.man) ELSE a.man, b.man, QuotLimbs))

\* a / b for b # 0 (Python raises ZeroDivisionError for b = 0)
FDiv(a, b) ==
    CASE b.man # <<>> ->
        IF a.man = <<>> THEN FZero ELSE FDivGe(a, b, BCmp(a.man, b.man) >= 0)

\* -1, 0 or 1 as a < b, a = b or a > b
FCmp(a, b) ==
    LET sa == IF a.man = <<>> THEN 0 ELSE a.sgn
        sb == IF b.man = <<>> THEN 0 ELSE b.sgn
    IN  IF sa # sb THEN (IF sa < sb THEN -1 ELSE 1)
        ELSE IF sa = 0 THEN 0
        ELSE IF a.exp # b.exp THEN (IF a.exp < b.exp THEN -sa ELSE sa)
        ELSE sa * BCmp(a.man, b.man)

FLt(a, b) == FCmp(a, b) < 0

\* int(a): the integer part, truncated toward zero
FTrunc(a) ==
    IF a.man = <<>> THEN 0
    ELSE a.sgn * BToInt(IF a.exp >= 0 THEN BShl(a.man, a.exp) ELSE BShr(a.man, -a.exp))

FHundredthsUp(q, half, tie, tieAway) ==
    BToInt(q) + (IF half /\ (~tie \/ tieAway \/ BBit(q, 0) = 1) THEN 1 ELSE 0)

\* N * 2^-sh to the nearest integer
FHundredthsCut(N, sh, tieAway) ==
    FHundredthsUp(BShr(N, sh), BBit(N, sh - 1) = 1, BLowZero(N, sh - 1), tieAway)

\* the integer nearest to |a| * 100 for the exact value of a; an exact tie goes
\* away from zero when tieAway and to the even integer otherwise
FHundredths(a, tieAway) ==
    IF a.man = <<>> THEN 0
    ELSE IF a.exp >= 0 THEN BToInt(BShl(BMulSmall(a.man, 100), a.exp))
    ELSE FHundredthsCut(BMulSmall(a.man, 100), -a.exp, tieAway)

F100 == FFromInt(100)

\* float("d.dd"): the float nearest to h / 100
FParseHundredths(h) == FDiv(FFromInt(h), F100)

\* round(a, 2) of Python 2: correctly rounded from the exact value, an exact
\* halfway case away from zero
FRound2(a) == FParseHundredths(a.sgn * FHundredths(a, TRUE))

\* '%.2f' % a as a number of hundredths
FFormat2(a) == a.sgn * FHundredths(a, FALSE)

(***************************************************************************)
(* The brightness controllers.  A controller is a record                   *)
(*   kind                "software" or "backlight"                         *)
(*   minimum_percentage, maximum_percentage   ints from the configuration  *)
(*   max_brightness      the cached maximum (backlight), None before the   *)
(*                       first read                                        *)
(* and its device a record                                                 *)
(*   max_brightness      the sysfs max_brightness attribute (backlight)    *)
(*   actual              the sysfs actual_brightness attribute (an int),   *)
(*                       or the brightness xrandr reports, in hundredths   *)
(***************************************************************************)
None == -1

\* get_maximum_brightness(): 1.0 for xrandr, the cached or freshly read
\* max_brightness attribute for a backlight
get_maximum_brightness(self, dev) ==
    IF self.kind = "software" THEN FFromInt(1)
    ELSE FFromInt(IF self.max_brightness = None THEN dev.max_brightness
                  ELSE self.max_brightness)

\* get_current_brightness(): float(text) for xrandr, int(text) for sysfs
get_current_brightness(self, dev) ==
    IF self.kind = "software" THEN FParseHundredths(dev.actual)
    ELSE FFromInt(dev.actual)

brightness_to_percentage(self, dev, brightness) ==
    FDiv(brightness, FDiv(get_maximum_brightness(self, dev), F100))

percentage_to_brightness(self, dev, percentage) ==
    FMul(percentage, FDiv(get_maximum_brightness(self, dev), F100))

\* SoftwareBrightnessController: round(float(raw), 2);
\* BacklightBrightnessController: int(raw)
round_brightness(self, raw_brightness) ==
    IF self.kind = "software" THEN FRound2(raw_brightness)
    ELSE FFromInt(FTrunc(raw_brightness))

\* max(a, b) without its second argument: a percentage that is not raised to
\* the minimum
FMaxLeft(a, b) == a

\* max(a, b) and min(a, b) of two numbers
FMax(a, b) == IF FLt(a, b) THEN b ELSE a

FMin(a, b) == IF FLt(b, a) THEN b ELSE a

\* lines 399-401: <<percentage, raw_value>> for the clamped percentage
Normalized(self, dev, percentage) ==
    <<percentage, round_brightness(self, percentage_to_brightness(self, dev, percentage))>>

\* returns <<percentage, raw_value>>
normalize_brightness(self, dev, percentage) ==
    Normalized(self, dev,
               FMin(FMax(percentage, FFromInt(self.minimum_percentage)),
                    FFromInt(self.maximum_percentage)))

\* what change_brightness() hands to the device: '%.2f' for xrandr (in
\* hundredths), str(int(raw)) for sysfs
DeviceValue(self, raw_brightness) ==
    IF self.kind = "software" THEN FFormat2(raw_brightness)
    ELSE FTrunc(raw_brightness)

(***************************************************************************)
(* State.                                                                  *)
(***************************************************************************)
VARIABLES
    controllers,      \* config['controllers']: the constructed controllers
    devices,          \* the display behind each controller (same index)
    calls,            \* the increase/decrease calls made so far, in order
    pc,               \* where main() is
    options,          \* the command line as getopt sees it
    config,           \* what the configuration files hold
    uptime,           \* /proc/uptime, in hundredths of a second
    step_brightness,  \* main's local: "None", "True" or "False"
    time_in_utc,      \* the clock, seconds (UTC)
    utc_offset,       \* local time minus UTC at that instant, seconds
    noon_in_utc,      \* observer.date
    sunrise,          \* observer.previous_rising(Sun)
    sunset,           \* observer.next_setting(Sun)
    dark,             \* what is_it_dark_outside() returned
    arg,              \* the argument of the last conversion applied on its own
    ret               \* and what it returned

sunVars  == <<time_in_utc, utc_offset, noon_in_utc, sunrise, sunset, dark>>
ctlVars  == <<controllers, devices, calls>>
mainVars == <<pc, options, config, uptime, step_brightness>>
funVars  == <<arg, ret>>
vars     == <<controllers, devices, calls, pc, options, config, uptime,
              step_brightness, time_in_utc, utc_offset, noon_in_utc, sunrise,
              sunset, dark, arg, ret>>

(***************************************************************************)
(* The calls on a controller.  change_brightness() is handed new_brightness*)
(* when it differs from the value read; the write may fail.                *)
(***************************************************************************)
\* how a read of the device can end: both attributes read, the current
\* brightness unreadable, or (backlight, nothing cached) the maximum unreadable
ReadOutcomes(self) ==
    IF self.kind = "backlight" /\ self.max_brightness = None
    THEN {"ok", "current", "maximum"}
    ELSE {"ok", "current"}

\* how change_brightness() can end: xrandr succeeds or fails; the sysfs write
\* succeeds, fails with EACCES or fails with another IOError
WriteOutcomes(self) ==
    IF self.kind = "backlight" THEN {"ok", "EACCES", "EIO"} ELSE {"ok", "failed"}

\* a controller that keeps nothing of what it read
NotCached(self, dev) == self

\* the controller after get_maximum_brightness() has run
Cached(self, dev) ==
    IF self.kind = "backlight" /\ self.max_brightness = None
    THEN [self EXCEPT !.max_brightness = dev.max_brightness]
    ELSE self

\* a comparison that finds every new value different
DiffersAlways(new_brightness, current_brightness) == TRUE

\* lines 334 and 363: new_brightness != current_brightness
Differs(new_brightness, current_brightness) ==
    FCmp(new_brightness, current_brightness) # 0

\* no exception
NoException == [errno |-> "none", message |-> "none", original |-> TRUE]

\* every failure handed on as the operating system raised it
RaisedUnchanged(self, error) ==
    IF error = "none" THEN NoException
    ELSE [errno |-> error, message |-> "system", original |-> TRUE]

\* the exception that leaves the call for a failure of the given kind: lines
\* 633-641 replace an EACCES of the write by a new IOError with the same errno
\* and the advice to use super user privileges, and re-raise every other
\* IOError; a failed read or a failed xrandr is not caught anywhere
Raised(self, error) ==
    IF error = "none" THEN NoException
    ELSE IF self.kind = "backlight" /\ error = "EACCES"
    THEN [errno |-> "EACCES", message |-> "super user privileges", original |-> FALSE]
    ELSE [errno |-> error, message |-> "system", original |-> TRUE]

\* lines 600-604: the call read the max_brightness attribute (both reads
\* went well and nothing was cached)
MaximumRead(self, error) ==
    self.kind = "backlight" /\ self.max_brightness = None /\ error # "read"

CallRecord(i, op, step_size, cur, nb, set, result, error) ==
    [ctl |-> i, op |-> op, step_size |-> step_size, current_brightness |-> cur,
     new_percentage |-> nb[1], new_brightness |-> nb[2], set |-> set,
     result |-> result, error |-> error, exception |-> Raised(controllers[i], error),
     maximum_read |-> MaximumRead(controllers[i], error),
     maximum |-> IF error = "read" THEN None
                 ELSE FTrunc(get_maximum_brightness(controllers[i], devices[i]))]

\* lines 334-341 and 363-370: change_brightness() is called when the new
\* raw value differs from the one read
SetOrSkip(i, op, step_size, self, current_brightness, nb) ==
    IF Differs(nb[2], current_brightness)
    THEN \E wr \in WriteOutcomes(self) :
           /\ calls' = Append(calls,
                  CallRecord(i, op, step_size, current_brightness, nb, <<nb[2]>>,
                             IF wr = "ok" THEN "True" ELSE "raised",
                             IF wr = "ok" THEN "none" ELSE wr))
           /\ devices' =
                  IF wr = "ok"
                  THEN [devices EXCEPT ![i].actual = DeviceValue(self, nb[2])]
                  ELSE devices
    ELSE /\ calls' = Append(calls,
                  CallRecord(i, op, step_size, current_brightness, nb,
                             <<>>, "False", "none"))
         /\ UNCHANGED devices

\* lines 327-328 and 356-357
NewPercentage(op, old_percentage, step_size) ==
    IF op = "increase"
    THEN FAdd(old_percentage, FFromInt(step_size))
    ELSE FSub(old_percentage, FFromInt(step_size))

\* the body shared by increase_brightness() and decrease_brightness(), which
\* differ in the sign of the step only
AdjustBrightness(i, op, step_size) ==
    \E self \in {controllers[i]}, dev \in {devices[i]} :
      \E rd \in ReadOutcomes(self) :
        IF rd = "current"
        THEN /\ calls' = Append(calls, CallRecord(i, op, step_size, FZero,
                                  <<FZero, FZero>>, <<>>, "raised", "read"))
             /\ UNCHANGED <<controllers, devices>>
        ELSE \E current_brightness \in {get_current_brightness(self, dev)} :
          IF rd = "maximum"
          THEN /\ calls' = Append(calls, CallRecord(i, op, step_size, current_brightness,
                                    <<FZero, FZero>>, <<>>, "raised", "read"))
               /\ UNCHANGED <<controllers, devices>>
          ELSE \E nb \in {normalize_brightness(self, dev,
                            NewPercentage(op,
                              brightness_to_percentage(self, dev, current_brightness),
                              step_size))} :
                 /\ controllers' = [controllers EXCEPT ![i] = Cached(self, dev)]
                 /\ SetOrSkip(i, op, step_size, self, current_brightness, nb)

increase_brightness(i, step_size) == AdjustBrightness(i, "increase", step_size)

decrease_brightness(i, step_size) == AdjustBrightness(i, "decrease", step_size)

(***************************************************************************)
(* is_it_dark_outside().  Instants are whole seconds: observer.date is     *)
(* formatted with "%Y-%m-%d %H:%M:%S".  PyEphem is not part of the         *)
(* repository: its answers are any sunrise before and any sunset after the *)
(* observer's date, or an error when the sun does not rise or set.         *)
(***************************************************************************)
Day == 24 * 60 * 60

local_time == time_in_utc + utc_offset

local_hour == (local_time % Day) \div 3600

local_minute == (local_time % 3600) \div 60

local_second == local_time % 60

\* lines 219-226
NoonInUtc ==
    IF local_hour >= 12
    THEN time_in_utc - ((local_hour - 12) * 3600 + local_minute * 60 + local_second)
    ELSE time_in_utc + ((12 - local_hour) * 3600 + local_minute * 60 + local_second)

\* the instants PyEphem may answer with: a quarter of a day from the
\* observer's date, and the instants at and next to the current time
EphemInstants(noon) ==
    {noon - Day \div 4, noon + Day \div 4, time_in_utc - 1, time_in_utc, time_in_utc + 1}

\* the comparison with the boundaries counted as light
IsLightInclusive(rise, now, set) == rise <= now /\ now <= set

\* line 239: sunrise < time_in_utc < sunset
IsLight(rise, now, set) == rise < now /\ now < set

\* is_it_dark_outside() with a failed computation taken for night
is_it_dark_outside_defaulting ==
    /\ noon_in_utc' = NoonInUtc
    /\ \/ /\ sunrise' = None
          /\ sunset' = None
          /\ dark' = "True"
       \/ /\ sunrise' \in {t \in EphemInstants(NoonInUtc) : t < NoonInUtc}
          /\ sunset' \in {t \in EphemInstants(NoonInUtc) : t > NoonInUtc}
          /\ dark' = IF IsLight(sunrise', time_in_utc, sunset') THEN "False" ELSE "True"
    /\ UNCHANGED <<time_in_utc, utc_offset>>

\* lines 229-244: previous_rising() or next_setting() raises when the sun
\* does not rise or set at the observer's date, and nothing catches it
is_it_dark_outside ==
    /\ noon_in_utc' = NoonInUtc
    /\ \/ /\ sunrise' = None
          /\ sunset' = None
          /\ dark' = "error"
       \/ /\ sunrise' \in {t \in EphemInstants(NoonInUtc) : t < NoonInUtc}
          /\ sunset' \in {t \in EphemInstants(NoonInUtc) : t > NoonInUtc}
          /\ dark' = IF IsLight(sunrise', time_in_utc, sunset') THEN "False" ELSE "True"
    /\ UNCHANGED <<time_in_utc, utc_offset>>

(***************************************************************************)
(* main()                                                                  *)
(***************************************************************************)
\* 60 * 5 seconds, in hundredths of a second
UptimeLimit == 60 * 5 * 100

\* the comparison with five minutes counted as just booted
JustBootedInclusive == uptime <= UptimeLimit

\* line 104: find_system_uptime() < 60 * 5
JustBooted == uptime < UptimeLimit

\* lines 76-95: getopt rejects the command line (exit), --help prints the
\* usage and returns, --force sets step_brightness to False (with both given,
\* the local is dead once --help returns)
ParseOptions ==
    /\ pc = "start"
    /\ pc' = IF options.bad THEN "exit" ELSE IF options.help THEN "usage" ELSE "parsed"
    /\ step_brightness' = IF ~options.bad /\ options.force THEN "False" ELSE "None"
    /\ UNCHANGED <<ctlVars, options, config, uptime, sunVars, funVars>>

\* lines 96-101 and load_config()
LoadConfig ==
    /\ pc = "parsed"
    /\ IF config.ok /\ config.displays # <<>>
       THEN /\ pc' = "configured"
            /\ controllers' = [i \in 1..Len(config.displays) |->
                                 [kind |-> config.displays[i].kind,
                                  minimum_percentage |-> config.displays[i].min,
                                  maximum_percentage |-> config.displays[i].max,
                                  max_brightness |-> None]]
       ELSE /\ pc' = "exit"
            /\ UNCHANGED controllers
    /\ UNCHANGED <<devices, calls, options, config, uptime, step_brightness, sunVars,
                 funVars>>

\* lines 102-111
ChooseStep ==
    /\ pc = "configured"
    /\ pc' = "stepped"
    /\ step_brightness' =
           IF step_brightness = "None"
           THEN (IF JustBooted THEN "False" ELSE "True")
           ELSE step_brightness
    /\ UNCHANGED <<ctlVars, options, config, uptime, sunVars, funVars>>

\* line 113
CallIsItDark ==
    /\ pc = "stepped"
    /\ is_it_dark_outside
    /\ pc' = IF dark' = "error" THEN "raised" ELSE "loop"
    /\ UNCHANGED <<ctlVars, options, config, uptime, step_brightness, funVars>>

StepSize == IF step_brightness = "True" THEN 10 ELSE 100

\* a loop that goes on to the next controller after a call that raised
AfterCallSwallowed(result) == "loop"

\* lines 116-120: nothing catches what a call raises, so it ends the loop and
\* main(); a call that returned is followed by the next controller
AfterCall(result) == IF result = "raised" THEN "raised" ELSE "loop"

\* lines 116-117, one iteration
LoopDecrease ==
    /\ pc = "loop"
    /\ dark = "True"
    /\ Len(calls) < Len(controllers)
    /\ decrease_brightness(Len(calls) + 1, StepSize)
    /\ pc' = AfterCall(calls'[Len(calls')].result)
    /\ UNCHANGED <<options, config, uptime, step_brightness, sunVars, funVars>>

\* lines 119-120, one iteration
LoopIncrease ==
    /\ pc = "loop"
    /\ dark = "False"
    /\ Len(calls) < Len(controllers)
    /\ increase_brightness(Len(calls) + 1, StepSize)
    /\ pc' = AfterCall(calls'[Len(calls')].result)
    /\ UNCHANGED <<options, config, uptime, step_brightness, sunVars, funVars>>

\* the loop is through: main() returns
Return ==
    /\ pc = "loop"
    /\ Len(calls) = Len(controllers)
    /\ pc' = "done"
    /\ UNCHANGED <<ctlVars, options, config, uptime, step_brightness, sunVars, funVars>>

(***************************************************************************)
(* The inputs.                                                             *)
(***************************************************************************)
\* (minimum-percentage, maximum-percentage) of a display: the defaults, a
\* raised minimum and a degenerate interval
BoundPairs == {<<0, 100>>, <<5, 100>>, <<50, 50>>}

\* the step sizes: main() passes 10 and 100; a step of 0 is what a caller
\* passes to normalise the current value only
Steps == {0, 10, 100}

\* a backlight's max_brightness attribute: firmware backlights with a few
\* levels, and one byte-sized
BacklightMaxima == {7, 9, 15, 255}

\* the largest brightness xrandr reports, in hundredths
MaxHundredths == 100

\* every brightness xrandr can report, in hundredths
SoftwareValues == 0..MaxHundredths

\* every value a backlight's actual_brightness attribute can hold
BacklightValues(m) == 0..m

\* the values the displays are at when a controller is called: every fifth
\* hundredth; every level of a small backlight and the levels at and next to
\* the ends, the middle and the minimum percentages of a byte-sized one
SoftwareActuals == {h \in SoftwareValues : h % 5 = 0}

BacklightActuals(m) ==
    IF m < 16 THEN BacklightValues(m)
    ELSE {0, 12, 13, 25, m \div 2, m \div 2 + 1, m - 1, m}

Displays ==
    { [kind |-> "software", min |-> b[1], max |-> b[2],
       dev |-> [max_brightness |-> 1, actual |-> h]] :
         b \in BoundPairs, h \in SoftwareActuals }
    \cup
    UNION { { [kind |-> "backlight", min |-> b[1], max |-> b[2],
               dev |-> [max_brightness |-> m, actual |-> a]] :
                 b \in BoundPairs, a \in BacklightActuals(m) } : m \in BacklightMaxima }

\* BrightnessController.__init__() and BacklightBrightnessController.__init__()
Construct(d) ==
    [kind |-> d.kind, minimum_percentage |-> d.min, maximum_percentage |-> d.max,
     max_brightness |-> None]

NoOptions == [bad |-> FALSE, help |-> FALSE, force |-> FALSE]

NoConfig == [ok |-> TRUE, displays |-> <<>>]

IdleMain ==
    /\ options = NoOptions
    /\ config = NoConfig
    /\ uptime = 0
    /\ step_brightness = "None"

IdleSun ==
    /\ time_in_utc = 0
    /\ utc_offset = 0
    /\ noon_in_utc = None
    /\ sunrise = None
    /\ sunset = None
    /\ dark = "unknown"

IdleFun ==
    /\ arg = None
    /\ ret = None

(***************************************************************************)
(* Spec: one controller, constructed, receives one call (a controller      *)
(* lives for one call: main() constructs it, calls it once and exits).     *)
(***************************************************************************)
Init ==
    /\ \E d \in Displays :
         /\ controllers = <<Construct(d)>>
         /\ devices = <<d.dev>>
    /\ calls = <<>>
    /\ pc = "call"
    /\ IdleMain
    /\ IdleSun
    /\ IdleFun

Increase ==
    /\ pc = "call"
    /\ \E step_size \in Steps : increase_brightness(1, step_size)
    /\ pc' = "returned"
    /\ UNCHANGED <<options, config, uptime, step_brightness, sunVars, funVars>>

Decrease ==
    /\ pc = "call"
    /\ \E step_size \in Steps : decrease_brightness(1, step_size)
    /\ pc' = "returned"
    /\ UNCHANGED <<options, config, uptime, step_brightness, sunVars, funVars>>

Next == Increase \/ Decrease

Spec == Init /\ [][Next]_vars

(***************************************************************************)
(* SpecFun: the conversions of one controller, each applied on its own.    *)
(***************************************************************************)
\* the percentages handed to normalize_brightness(), in quarters of a
\* percent: -1000 and 1000, and the values at and next to 0, 5, 50 and 100
PercentQuarters ==
    {-4000, -1, 0, 1, 19, 20, 21, 199, 200, 201, 399, 400, 401, 4000}

\* the float of q quarters of a percent (exact)
Quarters(q) == FDiv(FFromInt(q), FFromInt(4))

\* one display of each backend, maximum and pair of bounds
FunDisplays ==
    { [kind |-> "software", min |-> b[1], max |-> b[2],
       dev |-> [max_brightness |-> 1, actual |-> 0]] : b \in BoundPairs }
    \cup
    { [kind |-> "backlight", min |-> b[1], max |-> b[2],
       dev |-> [max_brightness |-> m, actual |-> 0]] :
         b \in BoundPairs, m \in BacklightMaxima }

\* the raw values the display of a controller can be at
RawValues(self, dev) ==
    IF self.kind = "software" THEN SoftwareValues
    ELSE BacklightValues(dev.max_brightness)

\* the raw value r as the controller reads it from its display
RawValue(self, dev, r) == get_current_brightness(self, [dev EXCEPT !.actual = r])

InitFun ==
    /\ \E d \in FunDisplays :
         /\ controllers = <<Construct(d)>>
         /\ devices = <<d.dev>>
    /\ calls = <<>>
    /\ pc = "call"
    /\ IdleMain
    /\ IdleSun
    /\ IdleFun

Normalize ==
    /\ pc = "call"
    /\ \E q \in PercentQuarters :
         /\ arg' = q
         /\ ret' = normalize_brightness(controllers[1], devices[1], Quarters(q))
    /\ pc' = "normalized"
    /\ UNCHANGED <<ctlVars, options, config, uptime, step_brightness, sunVars>>

\* round_brightness(percentage_to_brightness(brightness_to_percentage(r)))
RoundTrip ==
    /\ pc = "call"
    /\ \E r \in RawValues(controllers[1], devices[1]) :
         /\ arg' = r
         /\ ret' = round_brightness(controllers[1],
                       percentage_to_brightness(controllers[1], devices[1],
                           brightness_to_percentage(controllers[1], devices[1],
                               RawValue(controllers[1], devices[1], r))))
    /\ pc' = "converted"
    /\ UNCHANGED <<ctlVars, options, config, uptime, step_brightness, sunVars>>

NextFun == Normalize \/ RoundTrip

SpecFun == InitFun /\ [][NextFun]_vars

(***************************************************************************)
(* SpecSun: is_it_dark_outside() called at one instant.                    *)
(***************************************************************************)
\* the time of day (UTC) of the call, in seconds
ClockHours == 0..23

ClockMinutes == {0, 1, 30, 59}

ClockSeconds == {0, 1, 59}

\* local time minus UTC: New York, UTC, Amsterdam in summer, Kolkata
UtcOffsets == {-5 * 3600, 0, 2 * 3600, 5 * 3600 + 1800}

InitSun ==
    /\ \E h \in ClockHours, m \in ClockMinutes, sec \in ClockSeconds :
         time_in_utc = Day + h * 3600 + m * 60 + sec
    /\ utc_offset \in UtcOffsets
    /\ noon_in_utc = None
    /\ sunrise = None
    /\ sunset = None
    /\ dark = "unknown"
    /\ controllers = <<>>
    /\ devices = <<>>
    /\ calls = <<>>
    /\ pc = "call"
    /\ IdleMain
    /\ IdleFun

AskSun ==
    /\ pc = "call"
    /\ is_it_dark_outside
    /\ pc' = "returned"
    /\ UNCHANGED <<ctlVars, options, config, uptime, step_brightness, funVars>>

NextSun == AskSun

SpecSun == InitSun /\ [][NextSun]_vars

(***************************************************************************)
(* SpecMain: one run of main().                                            *)
(***************************************************************************)
\* the displays of the configuration files and what they are at
MainDisplays ==
    { [kind |-> "software", min |-> 5, max |-> 100,
       dev |-> [max_brightness |-> 1, actual |-> 80]],
      [kind |-> "backlight", min |-> 5, max |-> 100,
       dev |-> [max_brightness |-> 255, actual |-> 25]] }

\* the configuration files: unreadable or invalid, or the display sections
\* in file order (none, one or two)
Configs ==
    {[ok |-> FALSE, displays |-> <<>>], [ok |-> TRUE, displays |-> <<>>]}
    \cup {[ok |-> TRUE, displays |-> <<d>>] : d \in MainDisplays}
    \cup {[ok |-> TRUE, displays |-> <<d, e>>] : d, e \in MainDisplays}

\* the command line: rejected by getopt, or with or without --help and --force
OptionSets ==
    {[bad |-> TRUE, help |-> FALSE, force |-> FALSE]}
    \cup {[bad |-> FALSE, help |-> h, force |-> f] : h, f \in BOOLEAN}

\* /proc/uptime in hundredths of a second: just booted, and at and next to
\* five minutes
Uptimes == {0, UptimeLimit - 1, UptimeLimit, UptimeLimit + 1}

\* the time of the run (UTC, the local zone of the model run): a second past
\* noon, where PyEphem's answers make it light or dark
MainClock == Day + 12 * 3600 + 1

InitMain ==
    /\ options \in OptionSets
    /\ config \in Configs
    /\ uptime \in Uptimes
    /\ step_brightness = "None"
    /\ controllers = <<>>
    /\ devices = [i \in 1..Len(config.displays) |-> config.displays[i].dev]
    /\ calls = <<>>
    /\ pc = "start"
    /\ time_in_utc = MainClock
    /\ utc_offset = 0
    /\ noon_in_utc = None
    /\ sunrise = None
    /\ sunset = None
    /\ dark = "unknown"
    /\ IdleFun

NextMain ==
    \/ ParseOptions
    \/ LoadConfig
    \/ ChooseStep
    \/ CallIsItDark
    \/ LoopDecrease
    \/ LoopIncrease
    \/ Return

SpecMain == InitMain /\ [][NextMain]_vars

(***************************************************************************)
(* SpecSeq: two backlight controllers that are called again and again,     *)
(* while the attributes of their displays change under them.               *)
(***************************************************************************)
\* the number of calls of a run
MaxCalls == 2

\* the displays at the start: 3 of 7 and 12 of 15
SeqDisplays ==
    << [kind |-> "backlight", min |-> 0, max |-> 100,
        dev |-> [max_brightness |-> 7, actual |-> 3]],
       [kind |-> "backlight", min |-> 0, max |-> 100,
        dev |-> [max_brightness |-> 15, actual |-> 12]] >>

\* what the attributes of each display turn into without the program: the
\* keys of the laptop change actual_brightness, another driver takes over
\* the display with another max_brightness
ChangedDevices ==
    << [max_brightness |-> 15, actual |-> 5],
       [max_brightness |-> 255, actual |-> 25] >>

InitSeq ==
    /\ controllers = [i \in 1..Len(SeqDisplays) |-> Construct(SeqDisplays[i])]
    /\ devices = [i \in 1..Len(SeqDisplays) |-> SeqDisplays[i].dev]
    /\ calls = <<>>
    /\ pc = "seq"
    /\ IdleMain
    /\ IdleSun
    /\ IdleFun

SeqIncrease ==
    /\ pc = "seq"
    /\ Len(calls) < MaxCalls
    /\ \E i \in 1..Len(controllers) : increase_brightness(i, 100)
    /\ UNCHANGED <<pc, options, config, uptime, step_brightness, sunVars, funVars>>

SeqDecrease ==
    /\ pc = "seq"
    /\ Len(calls) < MaxCalls
    /\ \E i \in 1..Len(controllers) : decrease_brightness(i, 100)
    /\ UNCHANGED <<pc, options, config, uptime, step_brightness, sunVars, funVars>>

DeviceChanges ==
    /\ pc = "seq"
    /\ Len(calls) < MaxCalls
    /\ \E i \in 1..Len(devices) :
         /\ devices[i] # ChangedDevices[i]
         /\ devices' = [devices EXCEPT ![i] = ChangedDevices[i]]
    /\ UNCHANGED <<controllers, calls, mainVars, sunVars, funVars>>

NextSeq == SeqIncrease \/ SeqDecrease \/ DeviceChanges

SpecSeq == InitSeq /\ [][NextSeq]_vars

(***************************************************************************)
(* The properties of the calls on a controller, checked under Spec.        *)
(***************************************************************************)
\* the controller and the display of a call
CallCtl(c) == controllers[c.ctl]

CallDev(c) == devices[c.ctl]

\* the call read the current and the maximum brightness
PastRead(c) == c.error # "read"

\* the call changed the value: the new raw value is not the one it read
Changed(c) == FCmp(c.new_brightness, c.current_brightness) # 0

WithinBounds(self, percentage) ==
    /\ FCmp(FFromInt(self.minimum_percentage), percentage) <= 0
    /\ FCmp(percentage, FFromInt(self.maximum_percentage)) <= 0

\* C1: every raw value that increase_brightness() or decrease_brightness()
\* hands to change_brightness() converts back, by brightness_to_percentage(),
\* to a percentage inside [minimum_percentage, maximum_percentage]
C1_SetValuesWithinBounds ==
    \A k \in 1..Len(calls) : \A j \in 1..Len(calls[k].set) :
        WithinBounds(CallCtl(calls[k]),
                     brightness_to_percentage(CallCtl(calls[k]), CallDev(calls[k]),
                                              calls[k].set[j]))

\* the new raw value of a call, computed from the value it read
ExpectedBrightness(c) ==
    normalize_brightness(CallCtl(c), CallDev(c),
        NewPercentage(c.op,
            brightness_to_percentage(CallCtl(c), CallDev(c), c.current_brightness),
            c.step_size))[2]

\* C2: a call hands the normalized new raw value to change_brightness(), once,
\* exactly when it differs from the raw value read at the start of the call;
\* the call returns True in that case (when the write does not raise) and
\* returns False, without a write, otherwise
C2_SetIffChanged ==
    \A k \in 1..Len(calls) :
        PastRead(calls[k]) =>
            /\ calls[k].new_brightness = ExpectedBrightness(calls[k])
            /\ calls[k].set = IF Changed(calls[k]) THEN <<calls[k].new_brightness>>
                              ELSE <<>>
            /\ (calls[k].result = "False") <=> ~Changed(calls[k])
            /\ (calls[k].result = "True") <=>
                   (Changed(calls[k]) /\ calls[k].error = "none")

\* a call that changed the value wrote it once and returned True
C2_Witness ==
    /\ Len(calls) = 1
    /\ Changed(calls[1])
    /\ calls[1].set = <<calls[1].new_brightness>>
    /\ calls[1].result = "True"
    /\ devices[1].actual = DeviceValue(controllers[1], calls[1].new_brightness)

\* the raw value the call read, as the display holds it (an int of the
\* backlight, hundredths of xrandr)
CurrentRaw(c) == DeviceValue(CallCtl(c), c.current_brightness)

\* the value read is inside the bounds of the controller (exact arithmetic)
CurrentInsideBounds(c) ==
    /\ CallCtl(c).minimum_percentage * CallDev(c).max_brightness
           <= CurrentRaw(c) * (IF CallCtl(c).kind = "software" THEN 1 ELSE 100)
    /\ CurrentRaw(c) * (IF CallCtl(c).kind = "software" THEN 1 ELSE 100)
           <= CallCtl(c).maximum_percentage * CallDev(c).max_brightness

\* C3: increase_brightness(0) and decrease_brightness(0) do not call
\* change_brightness() and return False (stated for the current values whose
\* percentage is inside the bounds, where normalising moves nothing)
C3_ZeroStepIdempotent ==
    \A k \in 1..Len(calls) :
        (PastRead(calls[k]) /\ calls[k].step_size = 0 /\ CurrentInsideBounds(calls[k]))
            => (calls[k].set = <<>> /\ calls[k].result = "False")

\* the calls of the no-op claim: bounds [50, 50] and a step of 10
FixedAtFifty(c) ==
    /\ PastRead(c)
    /\ c.step_size = 10
    /\ CallCtl(c).minimum_percentage = 50
    /\ CallCtl(c).maximum_percentage = 50

\* the raw value of 50 percent
FiftyPercent(c) ==
    round_brightness(CallCtl(c),
                     percentage_to_brightness(CallCtl(c), CallDev(c), FFromInt(50)))

\* C4 as stated: with bounds [50, 50], increase_brightness(10) and
\* decrease_brightness(10) return False and never call change_brightness(),
\* for every current raw value
C4_NeverSets ==
    \A k \in 1..Len(calls) :
        FixedAtFifty(calls[k]) => (calls[k].set = <<>> /\ calls[k].result = "False")

\* C4 amended: with bounds [50, 50], increase_brightness(10) and
\* decrease_brightness(10) compute the raw value of 50 percent; they return
\* False without calling change_brightness() exactly when the current raw
\* value is that value already, and hand it to change_brightness() otherwise
C4_SetsFiftyUnlessThere ==
    \A k \in 1..Len(calls) :
        FixedAtFifty(calls[k]) =>
            /\ calls[k].new_brightness = FiftyPercent(calls[k])
            /\ (calls[k].set = <<>> /\ calls[k].result = "False")
                   <=> (FCmp(calls[k].current_brightness, FiftyPercent(calls[k])) = 0)
            /\ (FCmp(calls[k].current_brightness, FiftyPercent(calls[k])) # 0)
                   => calls[k].set = <<FiftyPercent(calls[k])>>

\* a decrease by 10 that found the display at 50 percent and left it alone
C4_Witness ==
    /\ Len(calls) = 1
    /\ FixedAtFifty(calls[1])
    /\ calls[1].op = "decrease"
    /\ FCmp(calls[1].current_brightness, FiftyPercent(calls[1])) = 0
    /\ calls[1].set = <<>>
    /\ calls[1].result = "False"

\* the scenario of C9: a backlight with max_brightness 255 at 25, bounds
\* [5, 100], decrease_brightness(10)
C9_Scenario(c) ==
    /\ PastRead(c)
    /\ c.op = "decrease"
    /\ c.step_size = 10
    /\ CallCtl(c).kind = "backlight"
    /\ CallDev(c).max_brightness = 255
    /\ CallCtl(c).minimum_percentage = 5
    /\ CallCtl(c).maximum_percentage = 100
    /\ c.current_brightness = FFromInt(25)

\* C9: in that scenario the new percentage is clamped to 5, the new raw value
\* is 13 and change_brightness(13) is called
C9_SetsThirteen ==
    \A k \in 1..Len(calls) :
        C9_Scenario(calls[k]) =>
            /\ calls[k].new_percentage = FFromInt(5)
            /\ calls[k].new_brightness = FFromInt(13)
            /\ calls[k].set = <<FFromInt(13)>>

(***************************************************************************)
(* The properties of the conversions, checked under SpecFun.               *)
(***************************************************************************)
\* q quarters of a percent clamped into the bounds of the controller, by
\* integer arithmetic
ClampedQuarters(self, q) ==
    IF q < 4 * self.minimum_percentage THEN 4 * self.minimum_percentage
    ELSE IF q > 4 * self.maximum_percentage THEN 4 * self.maximum_percentage
    ELSE q

\* C5: the first component of normalize_brightness(p) is p when p is inside
\* [minimum_percentage, maximum_percentage], minimum_percentage when p is
\* below and maximum_percentage when p is above, for p from -1000 to 1000
C5_NormalizeClamps ==
    pc = "normalized" =>
        /\ ret[1] = Quarters(ClampedQuarters(controllers[1], arg))
        /\ WithinBounds(controllers[1], ret[1])

\* normalize_brightness(-1000) of a controller with a minimum of 5 percent
\* returned 5 percent
C5_Witness ==
    /\ pc = "normalized"
    /\ arg = -4000
    /\ controllers[1].minimum_percentage = 5
    /\ ret[1] = FFromInt(5)

\* C6: round_brightness(percentage_to_brightness(brightness_to_percentage(r)))
\* is r, for the multiples of 0.01 of xrandr and the ints of a backlight from
\* 0 to the maximum
C6_RoundTrip ==
    pc = "converted" => ret = RawValue(controllers[1], devices[1], arg)

(***************************************************************************)
(* The properties of is_it_dark_outside(), checked under SpecSun.          *)
(***************************************************************************)
\* C7: is_it_dark_outside() returns False exactly when sunrise < now < sunset,
\* both strict, and True otherwise: at the sunrise and at the sunset instant
\* it returns True
C7_DarkUnlessStrictlyBetween ==
    (pc = "returned" /\ dark # "error") =>
        /\ (dark = "False") <=> (sunrise < time_in_utc /\ time_in_utc < sunset)
        /\ (dark = "True") <=> (time_in_utc <= sunrise \/ sunset <= time_in_utc)
        /\ (time_in_utc = sunrise \/ time_in_utc = sunset) => dark = "True"

\* a call at the very instant of the sunrise returned True
C7_Witness ==
    /\ pc = "returned"
    /\ time_in_utc = sunrise
    /\ time_in_utc < sunset
    /\ dark = "True"

\* C8: the noon_in_utc that is_it_dark_outside() computes is the UTC instant
\* of 12:00:00 local time on the local calendar day of the current instant
C8_NoonOfLocalDay ==
    pc = "returned" =>
        noon_in_utc + utc_offset = (local_time \div Day) * Day + 12 * 3600

(***************************************************************************)
(* The properties of main(), checked under SpecMain.                       *)
(***************************************************************************)
\* the step main() is to pass: 100 with --force or an uptime below 300
\* seconds, 10 otherwise
ExpectedStep == IF options.force \/ uptime < UptimeLimit THEN 100 ELSE 10

\* C10: main() calls the controllers in order, one call each:
\* decrease_brightness() when is_it_dark_outside() returned True and
\* increase_brightness() when it returned False, with a step of 100 when
\* --force was given or the uptime is below 300 seconds and of 10 otherwise;
\* a run that returns has called every configured controller
C10_OneCallEach ==
    /\ Len(calls) <= Len(controllers)
    /\ \A k \in 1..Len(calls) :
           /\ calls[k].ctl = k
           /\ calls[k].op = (IF dark = "True" THEN "decrease" ELSE "increase")
           /\ dark \in {"True", "False"}
           /\ calls[k].step_size = ExpectedStep
    /\ pc = "done" =>
           /\ Len(controllers) = Len(config.displays)
           /\ Len(calls) = Len(controllers)

\* a run without --force at an uptime of exactly 300 seconds, in the dark,
\* that called decrease_brightness(10) on both of its controllers
C10_Witness ==
    /\ pc = "done"
    /\ ~options.force
    /\ uptime = UptimeLimit
    /\ dark = "True"
    /\ Len(calls) = 2
    /\ \A k \in 1..2 : calls[k].op = "decrease" /\ calls[k].step_size = 10

\* the display of configured controller j as it was when main() started
DisplayAtStart(j) == config.displays[j].dev

\* C11: main() calls the controllers in the order of the configuration; when
\* the call on a controller raises (a read or a write failed) main() ends
\* with that error: the failed call is the last one, the controllers after it
\* have read nothing and their displays are as they were, and the displays
\* of the controllers before it hold the values written to them
C11_AbortOnFirstFailure ==
    /\ \A k \in 1..Len(calls) :
           /\ calls[k].ctl = k
           /\ calls[k].result = "raised" => (k = Len(calls) /\ pc = "raised")
           /\ calls[k].result = "True" =>
                  devices[k].actual = DeviceValue(controllers[k], calls[k].new_brightness)
           /\ calls[k].result # "True" => devices[k] = DisplayAtStart(k)
    /\ \A j \in (Len(calls) + 1)..Len(controllers) :
           /\ devices[j] = DisplayAtStart(j)
           /\ controllers[j].max_brightness = None
    /\ (pc = "raised" /\ dark # "error") =>
           (Len(calls) >= 1 /\ calls[Len(calls)].result = "raised")

\* a run with two controllers whose first call wrote its value and whose
\* second call raised
C11_Witness ==
    /\ pc = "raised"
    /\ Len(controllers) = 2
    /\ Len(calls) = 2
    /\ calls[1].result = "True"
    /\ devices[1].actual = DeviceValue(controllers[1], calls[1].new_brightness)
    /\ devices[1] # DisplayAtStart(1)
    /\ calls[2].result = "raised"

\* is_it_dark_outside() has been called in this run
SunAsked == pc \in {"loop", "done", "raised"}

\* C12: when the computation of sunrise and sunset fails, is_it_dark_outside()
\* ends in an error, not in True or False, and main() ends with it: no
\* increase_brightness() or decrease_brightness() is called and no display
\* is written
C12_SunErrorIsFatal ==
    /\ (SunAsked /\ sunrise = None) => dark = "error"
    /\ dark = "error" =>
           /\ pc = "raised"
           /\ calls = <<>>
           /\ \A j \in 1..Len(controllers) :
                  /\ devices[j] = DisplayAtStart(j)
                  /\ controllers[j].max_brightness = None
    /\ calls # <<>> => dark \in {"True", "False"}

\* a run with two configured controllers that ended with the error of the
\* computation, no call made
C12_Witness ==
    /\ pc = "raised"
    /\ dark = "error"
    /\ sunrise = None
    /\ Len(controllers) = 2
    /\ calls = <<>>

(***************************************************************************)
(* The failures of a write, checked under Spec.                            *)
(***************************************************************************)
\* the call handed a value to BacklightBrightnessController.change_brightness()
BacklightWrite(c) == CallCtl(c).kind = "backlight" /\ c.set # <<>>

\* C13: when the write of a backlight fails with EACCES the call raises a new
\* error that keeps the errno EACCES and says that super user privileges are
\* needed; when it fails with another I/O error that error leaves the call
\* as it was raised; in both cases the call raises (the error is not
\* swallowed) and the display keeps its value
C13_WriteErrorsSurface ==
    \A k \in 1..Len(calls) :
        BacklightWrite(calls[k]) =>
            /\ calls[k].error = "EACCES" =>
                   /\ calls[k].result = "raised"
                   /\ calls[k].exception.errno = "EACCES"
                   /\ calls[k].exception.message = "super user privileges"
                   /\ ~calls[k].exception.original
            /\ calls[k].error \notin {"none", "EACCES"} =>
                   /\ calls[k].result = "raised"
                   /\ calls[k].exception =
                          [errno |-> calls[k].error, message |-> "system",
                           original |-> TRUE]
            /\ calls[k].error # "none" =>
                   CallDev(calls[k]).actual = CurrentRaw(calls[k])
            /\ calls[k].error = "none" =>
                   (calls[k].result = "True" /\ calls[k].exception = NoException)

\* a write of a backlight that failed with EACCES and raised the error with
\* the advice
C13_Witness ==
    /\ Len(calls) = 1
    /\ BacklightWrite(calls[1])
    /\ calls[1].error = "EACCES"
    /\ calls[1].result = "raised"
    /\ calls[1].exception.errno = "EACCES"
    /\ calls[1].exception.message = "super user privileges"

\* the raw value that repeated calls in the direction of c make for: that of
\* maximum_percentage going up, that of minimum_percentage going down
TargetBrightness(c) ==
    normalize_brightness(CallCtl(c), CallDev(c),
        FFromInt(IF c.op = "increase" THEN CallCtl(c).maximum_percentage
                 ELSE CallCtl(c).minimum_percentage))[2]

\* C15: with minimum_percentage < maximum_percentage, calls of
\* increase_brightness(10) step up to the raw value of maximum_percentage and
\* calls of decrease_brightness(10) step down to the raw value of
\* minimum_percentage, and no call returns False before the display is at
\* that raw value: a call that returns False read the target value
C15_FalseOnlyAtTarget ==
    \A k \in 1..Len(calls) :
        ( /\ PastRead(calls[k])
          /\ calls[k].step_size = 10
          /\ CallCtl(calls[k]).minimum_percentage < CallCtl(calls[k]).maximum_percentage
          /\ calls[k].result = "False" )
            => FCmp(calls[k].current_brightness, TargetBrightness(calls[k])) = 0

\* C16: for every step size, decrease_brightness() never hands a raw value
\* above the one it read to change_brightness(), and increase_brightness()
\* never one below it (stated for the current values whose percentage is
\* inside the bounds, where normalising moves nothing)
C16_NeverAgainstDirection ==
    \A k \in 1..Len(calls) : \A j \in 1..Len(calls[k].set) :
        (PastRead(calls[k]) /\ CurrentInsideBounds(calls[k])) =>
            IF calls[k].op = "decrease"
            THEN FCmp(calls[k].set[j], calls[k].current_brightness) <= 0
            ELSE FCmp(calls[k].set[j], calls[k].current_brightness) >= 0

(***************************************************************************)
(* The properties of the calls of one controller after another, checked    *)
(* under SpecSeq.                                                          *)
(***************************************************************************)
\* the calls on controller i that read its max_brightness attribute
MaximumReads(i) ==
    {k \in 1..Len(calls) : calls[k].ctl = i /\ calls[k].maximum_read}

\* the cache of every controller is filled by one read of its own and is what
\* every call on the controller computed with
MaximumCachedOnce ==
    \A i \in 1..Len(controllers) :
        /\ Cardinality(MaximumReads(i)) <= 1
        /\ MaximumReads(i) = {} => controllers[i].max_brightness = None
        /\ \A k \in 1..Len(calls) :
               calls[k].ctl = i /\ calls[k].error # "read" =>
                   \E f \in MaximumReads(i) :
                       /\ f <= k
                       /\ calls[k].maximum = calls[f].maximum
                       /\ controllers[i].max_brightness = calls[f].maximum

\* a call that got past its reads computed with the actual_brightness that the
\* display had when the call was made, and a call that read max_brightness
\* read that of its own display
ReadAfresh ==
    Len(calls') = Len(calls) + 1 =>
        \A c \in {calls'[Len(calls')]} :
            c.error # "read" =>
                /\ c.current_brightness = FFromInt(devices[c.ctl].actual)
                /\ c.maximum_read => c.maximum = devices[c.ctl].max_brightness

\* C14: over the calls on one backlight controller the max_brightness
\* attribute is read at most once, by the first call that needs it, every
\* later call computes with the value cached then, whatever the attribute has
\* become, and no controller sees the cache of another one; actual_brightness
\* is read again by every call.
C14_MaximumCachedCurrentFresh == []MaximumCachedOnce /\ [][ReadAfresh]_vars

\* C14 witness: two calls on the first controller got past their reads, the
\* first one read max_brightness = 7, the display was taken over by a driver
\* with max_brightness = 15 and another actual_brightness in between, and the
\* second call computed with the cached 7 and the new actual_brightness.
C14_Witness ==
    /\ Len(calls) = 2
    /\ \A k \in 1..2 : calls[k].ctl = 1 /\ calls[k].error # "read"
    /\ calls[1].maximum_read
    /\ ~calls[2].maximum_read
    /\ calls[2].maximum = 7
    /\ devices[1].max_brightness = 15
    /\ calls[1].current_brightness = FFromInt(3)
    /\ calls[2].current_brightness = FFromInt(5)

====
